---- MODULE Spec2Model ----
(***************************************************************************)
(* Build / test execution and streaming engine of wide (package output):   *)
(* BuildHandler (src/output/build.go) and GoTestHandler                    *)
(* (src/output/test.go), together with the external process, its two       *)
(* output pipes and the session's output channel they talk to.             *)
(*                                                                         *)
(* Text is a sequence of one-character strings; a line read by             *)
(* bufio.Reader.ReadString('\n') ends with "\n". A process writes whole     *)
(* lines, and a pipe holds PipeCap of them; what a bufio.Reader has read   *)
(* ahead of its caller is counted as still in the pipe. Where a handler    *)
(* tests session.OutputWS[sid] and fetches it again right after, the two   *)
(* reads are one step.                                                     *)
(***************************************************************************)
EXTENDS Integers, Sequences, FiniteSets, TLC

\* ------------------------------------------------------------------ bounds

\* Build invocations that may overlap on one directory.
NumBuilds == 2

\* Lines a compile process may write to its standard output.
MaxOut == 2

\* Lines an OS pipe holds unread before the writer blocks.
PipeCap == 1

\* Writes a test process may make to one of its streams.
MaxTestWrites == 2

Builds == 1..NumBuilds

\* ------------------------------------------------------------------- text

Digits == <<"0", "1", "2", "3", "4", "5", "6", "7", "8", "9">>

IsDigit(c) == \E d \in 1..10 : Digits[d] = c

DigitVal(c) == (CHOOSE d \in 1..10 : Digits[d] = c) - 1

\* strings.Index(s, c) for a one-character c, 1-based; 0 when c is absent
\* (Go: -1).
IndexOf(s, c) ==
    IF \E k \in 1..Len(s) : s[k] = c
    THEN CHOOSE k \in 1..Len(s) : s[k] = c /\ \A j \in 1..(k - 1) : s[j] # c
    ELSE 0

\* strings.Contains(s, c) for a one-character c.
Contains(s, c) == IndexOf(s, c) # 0

\* s[from:] of Go, with from a 0-based offset, from <= len(s).
From(s, from) == SubSeq(s, from + 1, Len(s))

RECURSIVE DigitsVal(_)
DigitsVal(s) ==
    IF s = <<>> THEN 0
    ELSE 10 * DigitsVal(SubSeq(s, 1, Len(s) - 1)) + DigitVal(s[Len(s)])

\* strconv.Atoi: an optional sign, then one or more decimal digits.
Atoi(s) ==
    LET signed == s # <<>> /\ s[1] \in {"+", "-"}
        body == IF signed THEN Tail(s) ELSE s
    IN  IF body # <<>> /\ \A k \in 1..Len(body) : IsDigit(body[k])
        THEN [ok |-> TRUE,
              val |-> IF signed /\ s[1] = "-" THEN 0 - DigitsVal(body)
                      ELSE DigitsVal(body)]
        ELSE [ok |-> FALSE, val |-> 0]

\* ------------------------------------------------------------------ paths

\* strings.Split(p, "/").
RECURSIVE SplitSlash(_)
SplitSlash(p) ==
    LET k == IndexOf(p, "/")
    IN  IF k = 0 THEN <<p>>
        ELSE <<SubSeq(p, 1, k - 1)>> \o SplitSlash(From(p, k))

RECURSIVE JoinSlash(_)
JoinSlash(parts) ==
    IF parts = <<>> THEN <<>>
    ELSE IF Len(parts) = 1 THEN parts[1]
    ELSE parts[1] \o <<"/">> \o JoinSlash(Tail(parts))

\* The elements filepath.Clean keeps: "" and "." are dropped, ".." removes
\* the element before it (or is dropped at the root, or kept in a relative
\* path that has nothing left to remove).
RECURSIVE CleanParts(_, _, _)
CleanParts(parts, rooted, acc) ==
    IF parts = <<>> THEN acc
    ELSE LET e == parts[1]
             rest == Tail(parts)
         IN  IF e = <<>> \/ e = <<".">> THEN CleanParts(rest, rooted, acc)
             ELSE IF e = <<".", ".">>
             THEN IF acc # <<>> /\ acc[Len(acc)] # <<".", ".">>
                  THEN CleanParts(rest, rooted, SubSeq(acc, 1, Len(acc) - 1))
                  ELSE IF rooted THEN CleanParts(rest, rooted, acc)
                  ELSE CleanParts(rest, rooted, Append(acc, e))
             ELSE CleanParts(rest, rooted, Append(acc, e))

\* filepath.Clean on a slash-separated path.
Clean(p) ==
    IF p = <<>> THEN <<".">>
    ELSE LET rooted == p[1] = "/"
             body == JoinSlash(CleanParts(SplitSlash(p), rooted, <<>>))
             out == IF rooted THEN <<"/">> \o body ELSE body
         IN  IF out = <<>> THEN <<".">> ELSE out

\* filepath.ToSlash(filepath.Join(dir, file)) where the separator is "/":
\* empty elements are ignored and the result is cleaned.
JoinPath(dir, file) ==
    IF dir = <<>> /\ file = <<>> THEN <<>>
    ELSE IF dir = <<>> THEN Clean(file)
    ELSE IF file = <<>> THEN Clean(dir)
    ELSE Clean(dir \o <<"/">> \o file)

\* ------------------------------------------------------------ diagnostics

lintSeverityError == "error"

\* A parse that reports the line number as the compiler printed it.
LintOfLineSameNo(curDir, line) ==
    LET first == IndexOf(line, ":")
        file == SubSeq(line, 1, first - 1)
        left == From(line, first)
        index == IndexOf(left, ":") - 1
        num == Atoi(SubSeq(left, 1, index))
    IN  IF index >= 0 /\ ~num.ok THEN [kind |-> "skip"]
        ELSE IF index >= 0 /\ index + 2 > Len(left) THEN [kind |-> "fault"]
        ELSE [kind |-> "lint",
              lint |-> [File |-> JoinPath(curDir, file),
                        LineNo |-> IF index >= 0 THEN num.val ELSE 0,
                        Severity |-> lintSeverityError,
                        Msg |-> IF index >= 0 THEN From(left, index + 2)
                                ELSE left]]

\* A parse that keeps a line whose line number does not parse, as line 0
\* with everything after the first colon as its message.
LintOfLineKeepsUnparsed(curDir, line) ==
    LET first == IndexOf(line, ":")
        file == SubSeq(line, 1, first - 1)
        left == From(line, first)
        index == IndexOf(left, ":") - 1
        num == Atoi(SubSeq(left, 1, index))
        parsed == index >= 0 /\ num.ok
    IN  IF parsed /\ index + 2 > Len(left) THEN [kind |-> "fault"]
        ELSE [kind |-> "lint",
              lint |-> [File |-> JoinPath(curDir, file),
                        LineNo |-> IF parsed THEN num.val - 1 ELSE 0,
                        Severity |-> lintSeverityError,
                        Msg |-> IF parsed THEN From(left, index + 2)
                                ELSE left]]

\* One pass of the lint loop over a line that is neither skipped nor a
\* continuation: the Lint it appends, or skip (strconv.Atoi failed), or
\* fault (left[index+2:] out of range).
LintOfLine(curDir, line) ==
    LET first == IndexOf(line, ":")
        file == SubSeq(line, 1, first - 1)
        left == From(line, first)
        index == IndexOf(left, ":") - 1
        num == Atoi(SubSeq(left, 1, index))
    IN  IF index >= 0 /\ ~num.ok THEN [kind |-> "skip"]
        ELSE IF index >= 0 /\ index + 2 > Len(left) THEN [kind |-> "fault"]
        ELSE [kind |-> "lint",
              lint |-> [File |-> JoinPath(curDir, file),
                        LineNo |-> (IF index >= 0 THEN num.val ELSE 0) - 1,
                        Severity |-> lintSeverityError,
                        Msg |-> IF index >= 0 THEN From(left, index + 2)
                                ELSE left]]

\* An iteration that passes over empty lines only.
LintStepNoColonTest(curDir, line, lints) ==
    IF Len(line) < 1
    THEN [fault |-> FALSE, lints |-> lints]
    ELSE IF line[1] = "\t"
    THEN IF lints = <<>>
         THEN [fault |-> TRUE, lints |-> lints]
         ELSE [fault |-> FALSE,
               lints |-> [lints EXCEPT ![Len(lints)].Msg = @ \o line]]
    ELSE LET r == LintOfLine(curDir, line)
         IN  IF r.kind = "fault" THEN [fault |-> TRUE, lints |-> lints]
             ELSE IF r.kind = "skip" THEN [fault |-> FALSE, lints |-> lints]
             ELSE [fault |-> FALSE, lints |-> Append(lints, r.lint)]

\* One iteration of the loop "for _, line := range lines": an empty line or
\* one without ":" is passed over; a line that starts with a tab is added
\* to the Msg of lints[len(lints)-1] (a fault when lints is empty); any
\* other line is parsed.
LintStep(curDir, line, lints) ==
    IF Len(line) < 1 \/ ~Contains(line, ":")
    THEN [fault |-> FALSE, lints |-> lints]
    ELSE IF line[1] = "\t"
    THEN IF lints = <<>>
         THEN [fault |-> TRUE, lints |-> lints]
         ELSE [fault |-> FALSE,
               lints |-> [lints EXCEPT ![Len(lints)].Msg = @ \o line]]
    ELSE LET r == LintOfLine(curDir, line)
         IN  IF r.kind = "fault" THEN [fault |-> TRUE, lints |-> lints]
             ELSE IF r.kind = "skip" THEN [fault |-> FALSE, lints |-> lints]
             ELSE [fault |-> FALSE, lints |-> Append(lints, r.lint)]

\* The loop "for _, line := range lines" of the lint process.
RECURSIVE LintLoop(_, _, _)
LintLoop(curDir, lines, lints) ==
    IF lines = <<>> THEN [fault |-> FALSE, lints |-> lints]
    ELSE LET r == LintStep(curDir, lines[1], lints)
         IN  IF r.fault THEN r ELSE LintLoop(curDir, Tail(lines), r.lints)

\* The lint process of a failed build: lines[0][0] is read first (a fault on
\* an empty buffer or an empty first line), a leading "#" line is skipped.
LintProcess(curDir, lines) ==
    IF lines = <<>> \/ lines[1] = <<>>
    THEN [fault |-> TRUE, lints |-> <<>>]
    ELSE LintLoop(curDir,
                  IF lines[1][1] = "#" THEN Tail(lines) ELSE lines, <<>>)

\* ------------------------------------------------------------------ state

VARIABLES
    build,      \* per build invocation: the handler's locals, its stdout
                \* goroutine, the compile process and its two pipes
    test,       \* the test invocation: handler, goroutine, process, pipes
    goMod,      \* whether go.mod exists in the target directory
    channel,    \* session.OutputWS[sid]: "live", "broken" (registered, but
                \* sends fail) or "absent" (nil)
    writing,    \* the tasks that are inside a WriteJSON on the channel
    sent,       \* every finished WriteJSON, in order: who sent what, at
                \* which send point (role), and whether the send succeeded
    lint,       \* the lint process of a failed build, one line at a time
    args,       \* the making of the compile command's argument vector
    file,       \* a request to the save, remove or rename handler
    disk        \* the files of the server: what each path holds

vars ==
    <<build, test, goMod, channel, writing, sent, lint, args, file, disk>>

\* A channelRet map: keys that were never set read as "" / FALSE / <<>>.
Output(class, text) == [class |-> class, text |-> text]

EmptyRet ==
    [cmd |-> "", output |-> Output("", <<>>), executable |-> FALSE,
     nextCmd |-> "", hasLints |-> FALSE, lints |-> <<>>]

\* The working directory of the invocations (filepath.Dir(filePath)).
CurDir == <<"/", "p">>

\* The k-th line a compile process writes to its standard output.
OutLine(k) == <<"o", Digits[k + 1], "\n">>

ErrDiag == <<"a", ":", "1", ":", " ", "m", "\n">>

ErrPkg == <<"#", " ", "p", "\n">>

ErrCont == <<"\t", "c", ":", "\n">>

\* What a compile process may write to its standard error.
ErrScripts == {<<>>, <<ErrDiag>>, <<ErrCont>>, <<ErrPkg, ErrDiag>>}

\* A process with its two pipes, before it is started.
NoProc ==
    [state |-> "none", exit |-> 0, planOut |-> <<>>, planErr |-> <<>>,
     nOut |-> 0, nErr |-> 0, outPipe |-> <<>>, errPipe |-> <<>>,
     closed |-> FALSE]

\* The locals of a BuildHandler call; pc "idle" is a request never made.
NewBuild(pc, nextCmd) ==
    [pc |-> pc, gpc |-> "none", code |-> 0, status |-> 0,
     isAPI |-> FALSE, canAccess |-> TRUE, abortedAt |-> "",
     nextCmdArg |-> nextCmd, channelRet |-> EmptyRet, lines |-> <<>>,
     line |-> <<>>, gline |-> <<>>, frame |-> EmptyRet, gframe |-> EmptyRet,
     modCmd |-> "", modErr |-> FALSE, modExists |-> FALSE,
     waitErr |-> FALSE, dropped |-> FALSE, prepNo |-> 0, proc |-> NoProc]

NewTest(pc) ==
    [pc |-> pc, gpc |-> "none", code |-> 0, channelRet |-> EmptyRet,
     gchannelRet |-> EmptyRet, frame |-> EmptyRet, gframe |-> EmptyRet,
     buf |-> <<>>, src |-> 1, success |-> FALSE, liveAtSend |-> FALSE,
     order |-> <<>>, proc |-> NoProc]

\* The locals of the lint process: the buffered lines, those still to be
\* looked at, and the Lints made so far; line is the line of the last
\* iteration, before the Lints as they were when it began, added whether
\* it appended a Lint and prevAdded whether the iteration before it did.
NewLint(pc, curDir, lines) ==
    [pc |-> pc, curDir |-> curDir, lines |-> lines, rest |-> <<>>,
     lints |-> <<>>, line |-> <<>>, before |-> <<>>, iterated |-> FALSE,
     added |-> FALSE, prevAdded |-> FALSE]

\* The locals of the lines that make goBuildArgs: conf is the user's
\* configured argument list for the platform.
NewArgs(pc, conf) == [pc |-> pc, conf |-> conf, goBuildArgs |-> <<>>]

\* The paths a request can resolve to, and no path.
Paths == {"p", "q"}

NoPath == ""

\* The file the build requests overwrite.
BuildPath == "p"

\* A request to a file handler on resolved paths: op is the handler, api,
\* gopath and access are the paths for which gulu.Go.IsAPI, gulu.Go.IsPath
\* and session.CanAccess answer true; status is the HTTP status written
\* (0: none yet) and code is result.Code.
NewFile(op, path, newPath, api, gopath, access) ==
    [op |-> op, pc |-> IF op = "idle" THEN "idle" ELSE "check",
     path |-> path, newPath |-> newPath,
     api |-> api, gopath |-> gopath, access |-> access,
     status |-> 0, code |-> 0]

\* What a path holds: the file that was there at the start (named by its
\* path), "none" (no file), "empty" (a file just created or truncated) or
\* "code" (the submitted source).
InitDisk == [p \in Paths |-> p]

\* ----------------------------------------------------------------- channel

\* The channel has no writer lock: a task enters WriteJSON whatever the
\* other tasks do. The frame is the map as marshalled on entry.
BeginWrite(who) == writing' = writing \cup {who}

\* WriteJSON returns: nil on a live channel, an error otherwise.
WriteOk == channel = "live"

EndWrite(who, role, msg) ==
    /\ writing' = writing \ {who}
    /\ sent' = Append(sent, [who |-> who, role |-> role, msg |-> msg,
                             ok |-> WriteOk])

\* The connection breaks: the channel stays registered, sends fail.
ChannelBreak ==
    /\ channel = "live"
    /\ channel' = "broken"
    /\ UNCHANGED <<lint, args, file, disk, build, test, goMod, writing, sent>>

\* The session's channel is closed and removed from the registry.
ChannelRemove ==
    /\ channel # "absent"
    /\ channel' = "absent"
    /\ UNCHANGED <<lint, args, file, disk, build, test, goMod, writing, sent>>

\* ----------------------------------------------------------------- process

\* An external process started by cmd.Start with StdoutPipe and StderrPipe:
\* it writes planOut to its standard output and planErr to its standard
\* error, in any interleaving, blocks while the pipe it writes to is full,
\* and exits once every write has been accepted.
StartedProc(planOut, planErr, exit) ==
    [NoProc EXCEPT !.state = "running", !.exit = exit,
                   !.planOut = planOut, !.planErr = planErr]

CanWriteOut(p) ==
    p.state = "running" /\ p.nOut < Len(p.planOut) /\ Len(p.outPipe) < PipeCap

CanWriteErr(p) ==
    p.state = "running" /\ p.nErr < Len(p.planErr) /\ Len(p.errPipe) < PipeCap

CanExit(p) ==
    p.state = "running" /\ p.nOut = Len(p.planOut) /\ p.nErr = Len(p.planErr)

WroteOut(p) == [p EXCEPT !.nOut = @ + 1,
                         !.outPipe = Append(@, p.planOut[p.nOut + 1])]

WroteErr(p) == [p EXCEPT !.nErr = @ + 1,
                         !.errPipe = Append(@, p.planErr[p.nErr + 1])]

Exited(p) == [p EXCEPT !.state = "exited"]

\* What the process has written so far to each stream.
WrittenOut(p) == SubSeq(p.planOut, 1, p.nOut)

WrittenErr(p) == SubSeq(p.planErr, 1, p.nErr)

\* A read of the standard-output pipe: a PathError once Wait has closed the
\* pipe, else the next chunk, else end-of-file once the writer has exited,
\* else the read blocks.
OutReadable(p) == p.closed \/ p.outPipe # <<>> \/ p.state # "running"

OutReadResult(p) ==
    IF p.closed THEN "error" ELSE IF p.outPipe # <<>> THEN "data" ELSE "eof"

ErrReadable(p) == p.closed \/ p.errPipe # <<>> \/ p.state # "running"

ErrReadResult(p) ==
    IF p.closed THEN "error" ELSE IF p.errPipe # <<>> THEN "data" ELSE "eof"

\* cmd.Wait returns once the process has exited, and closes both pipes.
CanWait(p) == p.state = "exited"

Waited(p) == [p EXCEPT !.state = "reaped", !.closed = TRUE]

\* ------------------------------------------------------------------- build

Upd(i, r) == build' = [build EXCEPT ![i] = r]

Main(i) == <<i, "main">>

Bg(i) == <<i, "out">>

\* A build request for a file path with the given answers of
\* gulu.Go.IsAPI and session.CanAccess.
BuildRequest(isAPI, canAccess) ==
    [NewBuild("access", "run") EXCEPT !.isAPI = isAPI,
                                      !.canAccess = canAccess]

BuildRequests == {BuildRequest(a, c) : a, c \in BOOLEAN}

\* A handler that builds whatever the path is.
AccessAlways(i) ==
    LET s == build[i] IN
    /\ s.pc = "access"
    /\ Upd(i, [s EXCEPT !.pc = "create"])
    /\ UNCHANGED <<lint, args, file, disk, test, goMod, channel, writing,
                   sent>>

\* if gulu.Go.IsAPI(filePath) || !session.CanAccess(uid, filePath): the
\* handler answers Forbidden and returns.
Access(i) ==
    LET s == build[i] IN
    /\ s.pc = "access"
    /\ IF s.isAPI \/ ~s.canAccess
       THEN Upd(i, [s EXCEPT !.pc = "forbidden", !.status = 403])
       ELSE Upd(i, [s EXCEPT !.pc = "create"])
    /\ UNCHANGED <<lint, args, file, disk, test, goMod, channel, writing,
                   sent>>

\* os.Create(filePath): the file is created or truncated, or the call fails.
Create(i) ==
    LET s == build[i] IN
    /\ s.pc = "create"
    /\ \/ /\ Upd(i, [s EXCEPT !.pc = "write"])
          /\ disk' = [disk EXCEPT ![BuildPath] = "empty"]
       \/ /\ Upd(i, [s EXCEPT !.pc = "aborted", !.code = -1,
                              !.abortedAt = "write"])
          /\ UNCHANGED disk
    /\ UNCHANGED <<lint, args, file, test, goMod, channel, writing, sent>>

\* A handler that notes the failed write and goes on.
WriteCodeGoesOn(i) ==
    LET s == build[i] IN
    /\ s.pc = "write"
    /\ \/ /\ Upd(i, [s EXCEPT !.pc = "announce"])
          /\ disk' = [disk EXCEPT ![BuildPath] = "code"]
       \/ /\ Upd(i, [s EXCEPT !.pc = "announce", !.code = -1,
                              !.abortedAt = "write"])
          /\ UNCHANGED disk
    /\ UNCHANGED <<lint, args, file, test, goMod, channel, writing, sent>>

\* fout.WriteString(code); fout.Close().
WriteCode(i) ==
    LET s == build[i] IN
    /\ s.pc = "write"
    /\ \/ /\ Upd(i, [s EXCEPT !.pc = "announce"])
          /\ disk' = [disk EXCEPT ![BuildPath] = "code"]
       \/ /\ Upd(i, [s EXCEPT !.pc = "aborted", !.code = -1,
                              !.abortedAt = "write"])
          /\ UNCHANGED disk
    /\ UNCHANGED <<lint, args, file, test, goMod, channel, writing, sent>>

\* The start announcement: only when a channel is registered.
Announce(i) ==
    LET s == build[i] IN
    /\ s.pc = "announce"
    /\ IF channel = "absent"
       THEN Upd(i, [s EXCEPT !.pc = "modCheck", !.dropped = TRUE])
       ELSE Upd(i, [s EXCEPT !.pc = "announceWrite",
                 !.channelRet.output = Output("start-build", <<>>),
                 !.channelRet.cmd = "start-build"])
    /\ UNCHANGED <<lint, args, file, disk, test, goMod, channel, writing,
                   sent>>

AnnounceWriteBegin(i) ==
    LET s == build[i] IN
    /\ s.pc = "announceWrite"
    /\ Upd(i, [s EXCEPT !.pc = "announceWriteEnd", !.frame = s.channelRet])
    /\ BeginWrite(Main(i))
    /\ UNCHANGED <<lint, args, file, disk, test, goMod, channel, sent>>

\* The result of the announcement's WriteJSON is not looked at.
AnnounceWriteEnd(i) ==
    LET s == build[i] IN
    /\ s.pc = "announceWriteEnd"
    /\ Upd(i, [s EXCEPT !.pc = "modCheck"])
    /\ EndWrite(Main(i), "start", s.frame)
    /\ UNCHANGED <<lint, args, file, disk, test, goMod, channel>>

\* gulu.File.IsExist(go.mod) chooses between "go mod init" and "go mod tidy".
ModCheck(i) ==
    LET s == build[i] IN
    /\ s.pc = "modCheck"
    /\ Upd(i, [s EXCEPT !.pc = "modRun",
                        !.modCmd = IF goMod THEN "tidy" ELSE "init"])
    /\ UNCHANGED <<lint, args, file, disk, test, goMod, channel, writing,
                   sent>>

\* goModCmd.CombinedOutput(): "go mod init" fails with "go.mod already
\* exists" when the descriptor is there, and otherwise creates it or fails
\* for another reason; "go mod tidy" succeeds or fails for another reason.
\* prepNo records the order in which the invocations prepared.
ModRun(i) ==
    LET s0 == build[i]
        s == [s0 EXCEPT !.prepNo =
                 Cardinality({j \in Builds : build[j].prepNo > 0}) + 1]
    IN
    /\ s0.pc = "modRun"
    /\ \/ /\ s.modCmd = "init" /\ goMod
          /\ Upd(i, [s EXCEPT !.pc = "modResult", !.modErr = TRUE,
                              !.modExists = TRUE])
          /\ UNCHANGED goMod
       \/ /\ s.modCmd = "init" /\ ~goMod
          /\ Upd(i, [s EXCEPT !.pc = "modResult"])
          /\ goMod' = TRUE
       \/ /\ s.modCmd = "tidy"
          /\ Upd(i, [s EXCEPT !.pc = "modResult"])
          /\ UNCHANGED goMod
       \/ /\ s.modCmd = "tidy" \/ ~goMod
          /\ Upd(i, [s EXCEPT !.pc = "modResult", !.modErr = TRUE])
          /\ UNCHANGED goMod
    /\ UNCHANGED <<lint, args, file, disk, test, channel, writing, sent>>

\* The test after CombinedOutput that ends the handler with result.Code -1.
ModAborts(err, alreadyExists) == err /\ alreadyExists

ModResult(i) ==
    LET s == build[i] IN
    /\ s.pc = "modResult"
    /\ IF ModAborts(s.modErr, s.modExists)
       THEN Upd(i, [s EXCEPT !.pc = "aborted", !.code = -1,
                             !.abortedAt = "prepare"])
       ELSE Upd(i, [s EXCEPT !.pc = "spawn"])
    /\ UNCHANGED <<lint, args, file, disk, test, goMod, channel, writing,
                   sent>>

\* cmd.StdoutPipe, cmd.StderrPipe and cmd.Start: a failure ends the handler
\* with result.Code -1; otherwise the compile process runs, channelRet gets
\* its "cmd" and "executable" and the stdout goroutine is started. err is
\* assigned anew here, and goModCmd and output are not read again.
Spawn(i) ==
    LET s == build[i] IN
    /\ s.pc = "spawn"
    /\ \/ Upd(i, [s EXCEPT !.pc = "aborted", !.code = -1,
                           !.abortedAt = "spawn"])
       \/ \E n \in 0..MaxOut, e \in ErrScripts, x \in {0, 1} :
            Upd(i, [s EXCEPT !.pc = "errLoop", !.gpc = "outLoop",
                      !.modCmd = "", !.modErr = FALSE, !.modExists = FALSE,
                      !.channelRet.cmd = "build",
                      !.channelRet.executable = TRUE,
                      !.proc = StartedProc([k \in 1..n |-> OutLine(k)], e, x)])
    /\ UNCHANGED <<lint, args, file, disk, test, goMod, channel, writing,
                   sent>>

\* The compile process.
ProcWriteOut(i) ==
    /\ CanWriteOut(build[i].proc)
    /\ Upd(i, [build[i] EXCEPT !.proc = WroteOut(@)])
    /\ UNCHANGED <<lint, args, file, disk, test, goMod, channel, writing,
                   sent>>

ProcWriteErr(i) ==
    /\ CanWriteErr(build[i].proc)
    /\ Upd(i, [build[i] EXCEPT !.proc = WroteErr(@)])
    /\ UNCHANGED <<lint, args, file, disk, test, goMod, channel, writing,
                   sent>>

ProcExit(i) ==
    /\ CanExit(build[i].proc)
    /\ Upd(i, [build[i] EXCEPT !.proc = Exited(@)])
    /\ UNCHANGED <<lint, args, file, disk, test, goMod, channel, writing,
                   sent>>

\* --- the stdout goroutine

\* Top of the loop: it ends when no channel is registered.
OutLoop(i) ==
    LET s == build[i] IN
    /\ s.gpc = "outLoop"
    /\ IF channel = "absent"
       THEN Upd(i, [s EXCEPT !.gpc = "done", !.dropped = TRUE])
       ELSE Upd(i, [s EXCEPT !.gpc = "outRead"])
    /\ UNCHANGED <<lint, args, file, disk, test, goMod, channel, writing,
                   sent>>

\* outReader.ReadString('\n'): end-of-file and every error end the loop.
\* Once Wait has closed the pipe, a line that the bufio.Reader had read
\* ahead is still returned, and one it had not is lost to the PathError.
OutRead(i) ==
    LET s == build[i] IN
    /\ s.gpc = "outRead"
    /\ OutReadable(s.proc)
    /\ \/ /\ s.proc.outPipe # <<>>
          /\ Upd(i, [s EXCEPT !.gpc = "outSet", !.gline = s.proc.outPipe[1],
                              !.proc.outPipe = Tail(@)])
       \/ /\ OutReadResult(s.proc) # "data"
          /\ Upd(i, [s EXCEPT !.gpc = "done"])
    /\ UNCHANGED <<lint, args, file, disk, test, goMod, channel, writing,
                   sent>>

\* channelRet["output"] = line, on the map the handler writes too.
OutSet(i) ==
    LET s == build[i] IN
    /\ s.gpc = "outSet"
    /\ Upd(i, [s EXCEPT !.gpc = "outWrite",
                        !.channelRet.output = Output("stdout", s.gline)])
    /\ UNCHANGED <<lint, args, file, disk, test, goMod, channel, writing,
                   sent>>

OutWriteBegin(i) ==
    LET s == build[i] IN
    /\ s.gpc = "outWrite"
    /\ Upd(i, [s EXCEPT !.gpc = "outWriteEnd", !.gframe = s.channelRet])
    /\ BeginWrite(Bg(i))
    /\ UNCHANGED <<lint, args, file, disk, test, goMod, channel, sent>>

OutWriteEnd(i) ==
    LET s == build[i] IN
    /\ s.gpc = "outWriteEnd"
    /\ Upd(i, [s EXCEPT !.gpc = IF WriteOk THEN "outLoop" ELSE "done"])
    /\ EndWrite(Bg(i), "stdout", s.gframe)
    /\ UNCHANGED <<lint, args, file, disk, test, goMod, channel>>

\* channelRet is one Go map that the goroutine and the handler both access
\* with no lock: the goroutine writes it at outSet and marshals it when it
\* enters WriteJSON, the handler writes it when it sets "output", "nextCmd"
\* or "lints" and marshals it when it enters WriteJSON.
GoroutineWritesMap(s) == s.gpc = "outSet"

GoroutineReadsMap(s) == s.gpc = "outWrite"

HandlerWritesMap(s) ==
    s.pc \in {"errSet", "succNext", "succBanner", "errBanner", "lint"}

HandlerReadsMap(s) == s.pc \in {"errWrite", "finalWrite"}

\* Two accesses of the map at once, one of them a write, are a data race:
\* besides the outcomes of doing one access after the other (the actions
\* above and below), the Go runtime may stop the whole server with "fatal
\* error: concurrent map writes" (or "concurrent map read and map write").
MapRaceFatal(i) ==
    LET s == build[i] IN
    /\ \/ GoroutineWritesMap(s) /\ (HandlerWritesMap(s) \/ HandlerReadsMap(s))
       \/ GoroutineReadsMap(s) /\ HandlerWritesMap(s)
    /\ Upd(i, [s EXCEPT !.pc = "crashed", !.gpc = "crashed"])
    /\ UNCHANGED <<lint, args, file, disk, test, goMod, channel, writing,
                   sent>>

\* --- the handler's standard-error loop

ErrLoop(i) ==
    LET s == build[i] IN
    /\ s.pc = "errLoop"
    /\ IF channel = "absent"
       THEN Upd(i, [s EXCEPT !.pc = "wait", !.dropped = TRUE])
       ELSE Upd(i, [s EXCEPT !.pc = "errRead"])
    /\ UNCHANGED <<lint, args, file, disk, test, goMod, channel, writing,
                   sent>>

\* errReader.ReadString('\n'): end-of-file ends the loop; otherwise what was
\* read is appended to lines, and an error (here with nothing read) ends
\* the loop after that.
ErrRead(i) ==
    LET s == build[i] IN
    /\ s.pc = "errRead"
    /\ \/ /\ ErrReadable(s.proc)
          /\ ErrReadResult(s.proc) = "data"
          /\ Upd(i, [s EXCEPT !.pc = "errSet", !.line = s.proc.errPipe[1],
                              !.lines = Append(@, s.proc.errPipe[1]),
                              !.proc.errPipe = Tail(@)])
       \/ /\ ErrReadable(s.proc)
          /\ ErrReadResult(s.proc) = "eof"
          /\ Upd(i, [s EXCEPT !.pc = "wait"])
       \/ Upd(i, [s EXCEPT !.pc = "wait", !.lines = Append(@, <<>>)])
    /\ UNCHANGED <<lint, args, file, disk, test, goMod, channel, writing,
                   sent>>

\* channelRet["output"] = "<span class='stderr'>" + parsePath(...) + "</span>".
ErrSet(i) ==
    LET s == build[i] IN
    /\ s.pc = "errSet"
    /\ Upd(i, [s EXCEPT !.pc = "errWrite",
                        !.channelRet.output = Output("stderr", s.line)])
    /\ UNCHANGED <<lint, args, file, disk, test, goMod, channel, writing,
                   sent>>

ErrWriteBegin(i) ==
    LET s == build[i] IN
    /\ s.pc = "errWrite"
    /\ Upd(i, [s EXCEPT !.pc = "errWriteEnd", !.frame = s.channelRet])
    /\ BeginWrite(Main(i))
    /\ UNCHANGED <<lint, args, file, disk, test, goMod, channel, sent>>

ErrWriteEnd(i) ==
    LET s == build[i] IN
    /\ s.pc = "errWriteEnd"
    /\ Upd(i, [s EXCEPT !.pc = IF WriteOk THEN "errLoop" ELSE "wait"])
    /\ EndWrite(Main(i), "stderr", s.frame)
    /\ UNCHANGED <<lint, args, file, disk, test, goMod, channel>>

\* --- resolution

\* A wait that returns while the process may still be running.
WaitWithoutExit(i) ==
    LET s == build[i] IN
    /\ s.pc = "wait"
    /\ Upd(i, [s EXCEPT !.pc = IF s.proc.exit = 0 THEN "succNext"
                                ELSE "errBanner",
                        !.waitErr = s.proc.exit # 0])
    /\ UNCHANGED <<lint, args, file, disk, test, goMod, channel, writing,
                   sent>>

\* cmd.Wait(): nil on exit status 0, an error otherwise.
Wait(i) ==
    LET s == build[i] IN
    /\ s.pc = "wait"
    /\ CanWait(s.proc)
    /\ Upd(i, [s EXCEPT !.pc = IF s.proc.exit = 0 THEN "succNext"
                                ELSE "errBanner",
                        !.waitErr = s.proc.exit # 0,
                        !.proc = Waited(@)])
    /\ UNCHANGED <<lint, args, file, disk, test, goMod, channel, writing,
                   sent>>

\* channelRet["nextCmd"] = args["nextCmd"].
SuccNext(i) ==
    LET s == build[i] IN
    /\ s.pc = "succNext"
    /\ Upd(i, [s EXCEPT !.pc = "succBanner",
                        !.channelRet.nextCmd = s.nextCmdArg])
    /\ UNCHANGED <<lint, args, file, disk, test, goMod, channel, writing,
                   sent>>

SuccBanner(i) ==
    LET s == build[i] IN
    /\ s.pc = "succBanner"
    /\ Upd(i, [s EXCEPT !.pc = "finalCheck",
                        !.channelRet.output = Output("build-succ", <<>>)])
    /\ UNCHANGED <<lint, args, file, disk, test, goMod, channel, writing,
                   sent>>

ErrBanner(i) ==
    LET s == build[i] IN
    /\ s.pc = "errBanner"
    /\ Upd(i, [s EXCEPT !.pc = "lint",
                        !.channelRet.output = Output("build-error", <<>>)])
    /\ UNCHANGED <<lint, args, file, disk, test, goMod, channel, writing,
                   sent>>

\* The lint process and channelRet["lints"] = lints; an index out of range
\* panics, which ends the handler.
Lint(i) ==
    LET s == build[i]
        r == LintProcess(CurDir, s.lines)
    IN
    /\ s.pc = "lint"
    /\ IF r.fault
       THEN Upd(i, [s EXCEPT !.pc = "panicked"])
       ELSE Upd(i, [s EXCEPT !.pc = "finalCheck",
                             !.channelRet.hasLints = TRUE,
                             !.channelRet.lints = r.lints])
    /\ UNCHANGED <<lint, args, file, disk, test, goMod, channel, writing,
                   sent>>

\* The completion message: only when a channel is registered.
FinalCheck(i) ==
    LET s == build[i] IN
    /\ s.pc = "finalCheck"
    /\ IF channel = "absent"
       THEN Upd(i, [s EXCEPT !.pc = "done", !.dropped = TRUE])
       ELSE Upd(i, [s EXCEPT !.pc = "finalWrite"])
    /\ UNCHANGED <<lint, args, file, disk, test, goMod, channel, writing,
                   sent>>

FinalWriteBegin(i) ==
    LET s == build[i] IN
    /\ s.pc = "finalWrite"
    /\ Upd(i, [s EXCEPT !.pc = "finalWriteEnd", !.frame = s.channelRet])
    /\ BeginWrite(Main(i))
    /\ UNCHANGED <<lint, args, file, disk, test, goMod, channel, sent>>

FinalWriteEnd(i) ==
    LET s == build[i] IN
    /\ s.pc = "finalWriteEnd"
    /\ Upd(i, [s EXCEPT !.pc = "done"])
    /\ EndWrite(Main(i), "completion", s.frame)
    /\ UNCHANGED <<lint, args, file, disk, test, goMod, channel>>

\* ------------------------------------------------------- build: behaviours

\* One build request of a session; the channel may be registered or not.
Init ==
    /\ \E r \in BuildRequests :
          build = [i \in Builds |-> IF i = 1 THEN r ELSE NewBuild("idle", "")]
    /\ test = NewTest("idle")
    /\ goMod \in BOOLEAN
    /\ channel \in {"live", "absent"}
    /\ writing = {}
    /\ sent = <<>>
    /\ lint = NewLint("idle", <<>>, <<>>)
    /\ args = NewArgs("idle", <<>>)
    /\ file = NewFile("idle", NoPath, NoPath, {}, {}, {})
    /\ disk = InitDisk

Prefix(i) ==
    \/ Access(i)
    \/ Create(i) \/ WriteCode(i)
    \/ Announce(i) \/ AnnounceWriteBegin(i) \/ AnnounceWriteEnd(i)
    \/ ModCheck(i) \/ ModRun(i) \/ ModResult(i)
    \/ Spawn(i)

Streaming(i) ==
    \/ ProcWriteOut(i) \/ ProcWriteErr(i) \/ ProcExit(i)
    \/ OutLoop(i) \/ OutRead(i) \/ OutSet(i)
    \/ OutWriteBegin(i) \/ OutWriteEnd(i)
    \/ ErrLoop(i) \/ ErrRead(i) \/ ErrSet(i)
    \/ ErrWriteBegin(i) \/ ErrWriteEnd(i)
    \/ MapRaceFatal(i)

Resolution(i) ==
    \/ Wait(i) \/ SuccNext(i) \/ SuccBanner(i) \/ ErrBanner(i) \/ Lint(i)
    \/ FinalCheck(i) \/ FinalWriteBegin(i) \/ FinalWriteEnd(i)

Next ==
    \/ \E i \in Builds : Prefix(i) \/ Streaming(i) \/ Resolution(i)
    \/ ChannelBreak
    \/ ChannelRemove

Spec == Init /\ [][Next]_vars

\* Two or more build requests on one directory, up to the start of their
\* compile processes.
InitPrep ==
    /\ build \in [Builds -> BuildRequests]
    /\ test = NewTest("idle")
    /\ goMod \in BOOLEAN
    /\ channel \in {"live", "absent"}
    /\ writing = {}
    /\ sent = <<>>
    /\ lint = NewLint("idle", <<>>, <<>>)
    /\ args = NewArgs("idle", <<>>)
    /\ file = NewFile("idle", NoPath, NoPath, {}, {}, {})
    /\ disk = InitDisk

NextPrep ==
    \/ \E i \in Builds : Prefix(i)
    \/ ChannelBreak
    \/ ChannelRemove

SpecPrep == InitPrep /\ [][NextPrep]_vars

\* -------------------------------------------------------------------- test

TMain == <<0, "main">>

TBg == <<0, "bg">>

\* The k-th chunk a test process writes to its standard error.
TestErrChunk(k) == <<"e", Digits[k + 1], "\n">>

RECURSIVE Flatten(_)
Flatten(chunks) ==
    IF chunks = <<>> THEN <<>> ELSE chunks[1] \o Flatten(Tail(chunks))

\* cmd.StdoutPipe() and cmd.StderrPipe(): a failure ends the handler with
\* result.Code -1.
TestPipes ==
    /\ test.pc = "pipes"
    /\ \/ test' = [test EXCEPT !.pc = "announce"]
       \/ test' = [test EXCEPT !.pc = "returned", !.code = -1]
    /\ UNCHANGED <<lint, args, file, disk, build, goMod, channel, writing,
                   sent>>

\* The start announcement: only when a channel is registered.
TestAnnounce ==
    /\ test.pc = "announce"
    /\ IF channel = "absent"
       THEN test' = [test EXCEPT !.pc = "start"]
       ELSE test' = [test EXCEPT !.pc = "announceWrite",
                        !.channelRet.output = Output("start-test", <<>>),
                        !.channelRet.cmd = "start-test"]
    /\ UNCHANGED <<lint, args, file, disk, build, goMod, channel, writing,
                   sent>>

TestAnnounceWriteBegin ==
    /\ test.pc = "announceWrite"
    /\ test' = [test EXCEPT !.pc = "announceWriteEnd",
                            !.frame = test.channelRet]
    /\ BeginWrite(TMain)
    /\ UNCHANGED <<lint, args, file, disk, build, goMod, channel, sent>>

\* A failed announcement makes the handler return before cmd.Start.
TestAnnounceWriteEnd ==
    /\ test.pc = "announceWriteEnd"
    /\ test' = [test EXCEPT !.pc = IF WriteOk THEN "start" ELSE "returned"]
    /\ EndWrite(TMain, "start", test.frame)
    /\ UNCHANGED <<lint, args, file, disk, build, goMod, channel>>

\* cmd.Start(): a failure ends the handler with result.Code -1; otherwise
\* the background goroutine is started and the handler returns.
TestStart ==
    /\ test.pc = "start"
    /\ \/ test' = [test EXCEPT !.pc = "returned", !.code = -1]
       \/ \E n \in 0..MaxTestWrites, m \in 0..MaxTestWrites, x \in {0, 1} :
            test' = [test EXCEPT !.pc = "returned", !.gpc = "readAll",
                       !.gchannelRet.cmd = "go test",
                       !.proc = StartedProc([k \in 1..n |-> OutLine(k)],
                                    [k \in 1..m |-> TestErrChunk(k)], x)]
    /\ UNCHANGED <<lint, args, file, disk, build, goMod, channel, writing,
                   sent>>

\* The test process; order is everything it wrote, in the order written.
TestProcWriteOut ==
    /\ CanWriteOut(test.proc)
    /\ test' = [test EXCEPT !.proc = WroteOut(@),
                   !.order = @ \o test.proc.planOut[test.proc.nOut + 1]]
    /\ UNCHANGED <<lint, args, file, disk, build, goMod, channel, writing,
                   sent>>

TestProcWriteErr ==
    /\ CanWriteErr(test.proc)
    /\ test' = [test EXCEPT !.proc = WroteErr(@),
                   !.order = @ \o test.proc.planErr[test.proc.nErr + 1]]
    /\ UNCHANGED <<lint, args, file, disk, build, goMod, channel, writing,
                   sent>>

TestProcExit ==
    /\ CanExit(test.proc)
    /\ test' = [test EXCEPT !.proc = Exited(@)]
    /\ UNCHANGED <<lint, args, file, disk, build, goMod, channel, writing,
                   sent>>

\* io.MultiReader(stdout, stderr): the sources, in the order they are read.
ReaderOrderSwapped == <<"stderr", "stdout">>

ReaderOrder == <<"stdout", "stderr">>

SrcReadable(p, src) ==
    IF src = "stdout" THEN OutReadable(p) ELSE ErrReadable(p)

SrcReadResult(p, src) ==
    IF src = "stdout" THEN OutReadResult(p) ELSE ErrReadResult(p)

SrcHead(p, src) == IF src = "stdout" THEN p.outPipe[1] ELSE p.errPipe[1]

SrcPopped(p, src) ==
    IF src = "stdout" THEN [p EXCEPT !.outPipe = Tail(@)]
    ELSE [p EXCEPT !.errPipe = Tail(@)]

\* ioutil.ReadAll(bufio.NewReader(io.MultiReader(stdout, stderr))): one read
\* of the current source; at its end-of-file the reader moves on to the
\* next source, and at the end of the last one ReadAll returns.
TestRead ==
    LET src == ReaderOrder[test.src] IN
    /\ test.gpc = "readAll"
    /\ SrcReadable(test.proc, src)
    /\ IF SrcReadResult(test.proc, src) = "data"
       THEN test' = [test EXCEPT !.buf = @ \o SrcHead(test.proc, src),
                                 !.proc = SrcPopped(@, src)]
       ELSE IF test.src < Len(ReaderOrder)
       THEN test' = [test EXCEPT !.src = @ + 1]
       ELSE test' = [test EXCEPT !.gpc = "wait"]
    /\ UNCHANGED <<lint, args, file, disk, build, goMod, channel, writing,
                   sent>>

\* cmd.Wait(), then cmd.ProcessState.Success().
TestWait ==
    /\ test.gpc = "wait"
    /\ CanWait(test.proc)
    /\ test' = [test EXCEPT !.gpc = "classify",
                            !.success = test.proc.exit = 0,
                            !.proc = Waited(@)]
    /\ UNCHANGED <<lint, args, file, disk, build, goMod, channel, writing,
                   sent>>

\* The completion text: a banner, then string(buf).
TestOutputSwapped(success, buf) ==
    IF success THEN Output("test-error", buf) ELSE Output("test-succ", buf)

TestOutput(success, buf) ==
    IF ~success THEN Output("test-error", buf) ELSE Output("test-succ", buf)

TestClassify ==
    /\ test.gpc = "classify"
    /\ test' = [test EXCEPT !.gpc = "finalCheck",
                   !.gchannelRet.output = TestOutput(test.success, test.buf)]
    /\ UNCHANGED <<lint, args, file, disk, build, goMod, channel, writing,
                   sent>>

\* The completion message: only when a channel is registered.
TestFinalCheck ==
    /\ test.gpc = "finalCheck"
    /\ IF channel = "absent"
       THEN test' = [test EXCEPT !.gpc = "done"]
       ELSE test' = [test EXCEPT !.gpc = "finalWrite", !.liveAtSend = TRUE]
    /\ UNCHANGED <<lint, args, file, disk, build, goMod, channel, writing,
                   sent>>

TestFinalWriteBegin ==
    /\ test.gpc = "finalWrite"
    /\ test' = [test EXCEPT !.gpc = "finalWriteEnd",
                            !.gframe = test.gchannelRet]
    /\ BeginWrite(TBg)
    /\ UNCHANGED <<lint, args, file, disk, build, goMod, channel, sent>>

TestFinalWriteEnd ==
    /\ test.gpc = "finalWriteEnd"
    /\ test' = [test EXCEPT !.gpc = "done"]
    /\ EndWrite(TBg, "completion", test.gframe)
    /\ UNCHANGED <<lint, args, file, disk, build, goMod, channel>>

\* One test request of a session.
InitTest ==
    /\ build = [i \in Builds |-> NewBuild("idle", "")]
    /\ test = NewTest("pipes")
    /\ goMod = FALSE
    /\ channel \in {"live", "absent"}
    /\ writing = {}
    /\ sent = <<>>
    /\ lint = NewLint("idle", <<>>, <<>>)
    /\ args = NewArgs("idle", <<>>)
    /\ file = NewFile("idle", NoPath, NoPath, {}, {}, {})
    /\ disk = InitDisk

\* The steps of the handler, of the test process and of the background task.
TestSteps ==
    \/ TestPipes \/ TestAnnounce
    \/ TestAnnounceWriteBegin \/ TestAnnounceWriteEnd
    \/ TestStart
    \/ TestProcWriteOut \/ TestProcWriteErr \/ TestProcExit
    \/ TestRead \/ TestWait \/ TestClassify \/ TestFinalCheck
    \/ TestFinalWriteBegin \/ TestFinalWriteEnd

NextTest ==
    \/ TestSteps
    \/ ChannelBreak
    \/ ChannelRemove

SpecTest == InitTest /\ [][NextTest]_vars

\* One request of a session, a build or a test.
InitRequest == Init \/ InitTest

NextRequest ==
    \/ \E i \in Builds : Prefix(i) \/ Streaming(i) \/ Resolution(i)
    \/ TestSteps
    \/ ChannelBreak
    \/ ChannelRemove

SpecRequest == InitRequest /\ [][NextRequest]_vars

\* -------------------------------------------------------------------- lint

\* Longest standard-error text of a failed compile, in characters.
MaxErrLen == 6

\* The characters the lint process tells apart, and one of each other kind.
LintChars == {"a", "1", ":", "\t", "#", "\n"}

ErrTexts == UNION {[1..n -> LintChars] : n \in 0..MaxErrLen}

\* A compile of /proj/main.go that fails with one error.
ScenarioDir == <<"/", "p", "r", "o", "j">>

ScenarioText ==
    <<"m", "a", "i", "n", ".", "g", "o", ":", "1", "0", ":", "2", ":", " ",
      "u", "n", "d", "e", "f", "i", "n", "e", "d", ":", " ", "f", "o", "o",
      "\n">>

\* The lines the standard-error loop buffers while the channel stays live:
\* each ReadString('\n') result with its "\n"; what follows the last "\n"
\* comes with io.EOF and is not appended.
RECURSIVE ReadLines(_)
ReadLines(text) ==
    LET k == IndexOf(text, "\n")
    IN  IF k = 0 THEN <<>>
        ELSE <<SubSeq(text, 1, k)>> \o ReadLines(From(text, k))

\* A lint process that parses the first line whatever it starts with.
LintFirstKeepsMarker ==
    /\ lint.pc = "first"
    /\ IF lint.lines = <<>> \/ lint.lines[1] = <<>>
       THEN lint' = [lint EXCEPT !.pc = "panicked"]
       ELSE lint' = [lint EXCEPT !.pc = "loop", !.rest = lint.lines]
    /\ UNCHANGED <<build, test, goMod, channel, writing, sent, args, file,
                   disk>>

\* if lines[0][0] == '#' { lines = lines[1:] }
LintFirst ==
    /\ lint.pc = "first"
    /\ IF lint.lines = <<>> \/ lint.lines[1] = <<>>
       THEN lint' = [lint EXCEPT !.pc = "panicked"]
       ELSE lint' = [lint EXCEPT !.pc = "loop",
                        !.rest = IF lint.lines[1][1] = "#"
                                 THEN Tail(lint.lines) ELSE lint.lines]
    /\ UNCHANGED <<build, test, goMod, channel, writing, sent, args, file,
                   disk>>

\* One iteration of the loop.
LintIter ==
    LET r == LintStep(lint.curDir, lint.rest[1], lint.lints) IN
    /\ lint.pc = "loop"
    /\ lint.rest # <<>>
    /\ lint' = [lint EXCEPT !.pc = IF r.fault THEN "panicked" ELSE "loop",
                            !.rest = Tail(@),
                            !.line = lint.rest[1],
                            !.before = lint.lints,
                            !.lints = r.lints,
                            !.iterated = TRUE,
                            !.added = Len(r.lints) > Len(lint.lints),
                            !.prevAdded = lint.added]
    /\ UNCHANGED <<build, test, goMod, channel, writing, sent, args, file,
                   disk>>

\* channelRet["lints"] = lints.
LintEnd ==
    /\ lint.pc = "loop"
    /\ lint.rest = <<>>
    /\ lint' = [lint EXCEPT !.pc = "done"]
    /\ UNCHANGED <<build, test, goMod, channel, writing, sent, args, file,
                   disk>>

\* The standard error of one failed compile, buffered in full.
InitLint ==
    /\ build = [i \in Builds |-> NewBuild("idle", "")]
    /\ test = NewTest("idle")
    /\ goMod = FALSE
    /\ channel = "live"
    /\ writing = {}
    /\ sent = <<>>
    /\ \/ \E t \in ErrTexts : lint = NewLint("first", CurDir, ReadLines(t))
       \/ lint = NewLint("first", ScenarioDir, ReadLines(ScenarioText))
    /\ args = NewArgs("idle", <<>>)
    /\ file = NewFile("idle", NoPath, NoPath, {}, {}, {})
    /\ disk = InitDisk

NextLint == LintFirst \/ LintIter \/ LintEnd

SpecLint == InitLint /\ [][NextLint]_vars

\* -------------------------------------------------------------------- args

\* Longest configured argument list of a user.
MaxArgs == 4

\* The flags a user may configure.
ArgWords == {"-i", "-v", "-x"}

ArgLists == UNION {[1..n -> ArgWords] : n \in 0..MaxArgs}

\* gulu.Str.Contains(str, slice): str is an element of slice.
StrContains(str, slice) == \E k \in 1..Len(slice) : slice[k] = str

\* user.BuildArgs(runtime.GOOS): the configured arguments, each kept at
\* its first occurrence only.
RECURSIVE BuildArgs(_)
BuildArgs(conf) ==
    IF conf = <<>> THEN <<>>
    ELSE LET init == BuildArgs(SubSeq(conf, 1, Len(conf) - 1))
             last == conf[Len(conf)]
         IN  IF StrContains(last, init) THEN init ELSE Append(init, last)

\* goBuildArgs = append(goBuildArgs, "build")
ArgsVerb ==
    /\ args.pc = "verb"
    /\ args' = [args EXCEPT !.pc = "user",
                            !.goBuildArgs = Append(@, "build")]
    /\ UNCHANGED <<build, test, goMod, channel, writing, sent, lint, file,
                   disk>>

\* goBuildArgs = append(goBuildArgs, user.BuildArgs(runtime.GOOS)...)
ArgsUser ==
    /\ args.pc = "user"
    /\ args' = [args EXCEPT !.pc = "flag",
                            !.goBuildArgs = @ \o BuildArgs(args.conf)]
    /\ UNCHANGED <<build, test, goMod, channel, writing, sent, lint, file,
                   disk>>

\* A vector that gets "-i" whatever it holds.
ArgsFlagAlways ==
    /\ args.pc = "flag"
    /\ args' = [args EXCEPT !.pc = "done",
                            !.goBuildArgs = Append(@, "-i")]
    /\ UNCHANGED <<build, test, goMod, channel, writing, sent, lint, file,
                   disk>>

\* if !gulu.Str.Contains("-i", goBuildArgs) { append "-i" }
ArgsFlag ==
    /\ args.pc = "flag"
    /\ args' = [args EXCEPT !.pc = "done",
                  !.goBuildArgs = IF ~StrContains("-i", args.goBuildArgs)
                                  THEN Append(@, "-i") ELSE @]
    /\ UNCHANGED <<build, test, goMod, channel, writing, sent, lint, file,
                   disk>>

\* The argument vector of one compile, for any configured list.
InitArgs ==
    /\ build = [i \in Builds |-> NewBuild("idle", "")]
    /\ test = NewTest("idle")
    /\ goMod = FALSE
    /\ channel = "live"
    /\ writing = {}
    /\ sent = <<>>
    /\ lint = NewLint("idle", <<>>, <<>>)
    /\ \E c \in ArgLists : args = NewArgs("verb", c)
    /\ file = NewFile("idle", NoPath, NoPath, {}, {}, {})
    /\ disk = InitDisk

NextArgs == ArgsVerb \/ ArgsUser \/ ArgsFlag

SpecArgs == InitArgs /\ [][NextArgs]_vars

\* ------------------------------------------------------------------- files

\* gulu.Go.IsAPI(p) || gulu.Go.IsPath(p) || !session.CanAccess(uid, p), on
\* the path that file.GetPath resolved.
Refused(p) == p \in file.api \/ p \in file.gopath \/ p \notin file.access

Forbidden == [file EXCEPT !.pc = "forbidden", !.status = 403]

\* SaveFileHandler: the check of the resolved path.
SaveCheck ==
    /\ file.op = "save" /\ file.pc = "check"
    /\ file' = IF Refused(file.path) THEN Forbidden
               ELSE [file EXCEPT !.pc = "create"]
    /\ UNCHANGED <<build, test, goMod, channel, writing, sent, lint, args,
                   disk>>

\* os.Create(filePath).
SaveCreate ==
    /\ file.op = "save" /\ file.pc = "create"
    /\ \/ /\ file' = [file EXCEPT !.pc = "write"]
          /\ disk' = [disk EXCEPT ![file.path] = "empty"]
       \/ /\ file' = [file EXCEPT !.pc = "done", !.code = -1]
          /\ UNCHANGED disk
    /\ UNCHANGED <<build, test, goMod, channel, writing, sent, lint, args>>

\* fout.WriteString(code) and fout.Close(), which may fail.
SaveWrite ==
    /\ file.op = "save" /\ file.pc = "write"
    /\ \/ /\ file' = [file EXCEPT !.pc = "done"]
          /\ disk' = [disk EXCEPT ![file.path] = "code"]
       \/ /\ file' = [file EXCEPT !.pc = "done", !.code = -1]
          /\ UNCHANGED disk
    /\ UNCHANGED <<build, test, goMod, channel, writing, sent, lint, args>>

\* RemoveFileHandler: the check of the resolved path.
RemoveCheck ==
    /\ file.op = "remove" /\ file.pc = "check"
    /\ file' = IF Refused(file.path) THEN Forbidden
               ELSE [file EXCEPT !.pc = "remove"]
    /\ UNCHANGED <<build, test, goMod, channel, writing, sent, lint, args,
                   disk>>

\* removeFile(path): os.RemoveAll.
RemoveFile ==
    /\ file.op = "remove" /\ file.pc = "remove"
    /\ \/ /\ file' = [file EXCEPT !.pc = "done"]
          /\ disk' = [disk EXCEPT ![file.path] = "none"]
       \/ /\ file' = [file EXCEPT !.pc = "done", !.code = -1]
          /\ UNCHANGED disk
    /\ UNCHANGED <<build, test, goMod, channel, writing, sent, lint, args>>

\* A rename handler that checks the old path only.
RenameCheckOldOnly ==
    /\ file.op = "rename" /\ file.pc = "check"
    /\ file' = IF Refused(file.path) THEN Forbidden
               ELSE [file EXCEPT !.pc = "rename"]
    /\ UNCHANGED <<build, test, goMod, channel, writing, sent, lint, args,
                   disk>>

\* RenameFileHandler: the check of the old path, then of the new path.
RenameCheck ==
    /\ file.op = "rename" /\ file.pc = "check"
    /\ file' = IF Refused(file.path) THEN Forbidden
               ELSE IF Refused(file.newPath) THEN Forbidden
               ELSE [file EXCEPT !.pc = "rename"]
    /\ UNCHANGED <<build, test, goMod, channel, writing, sent, lint, args,
                   disk>>

\* renameFile(oldPath, newPath): os.Rename, which fails when there is no
\* file at the old path.
RenameFile ==
    /\ file.op = "rename" /\ file.pc = "rename"
    /\ \/ /\ disk[file.path] # "none"
          /\ file' = [file EXCEPT !.pc = "done"]
          /\ disk' = IF file.path = file.newPath THEN disk
                     ELSE [disk EXCEPT ![file.newPath] = disk[file.path],
                                       ![file.path] = "none"]
       \/ /\ file' = [file EXCEPT !.pc = "done", !.code = -1]
          /\ UNCHANGED disk
    /\ UNCHANGED <<build, test, goMod, channel, writing, sent, lint, args>>

\* The requests to the three handlers, for every answer of the checks.
FileRequests ==
    {NewFile(op, p, IF op = "rename" THEN q ELSE NoPath, a, g, c) :
        op \in {"save", "remove", "rename"}, p \in Paths, q \in Paths,
        a \in SUBSET Paths, g \in SUBSET Paths, c \in SUBSET Paths}

\* One request that names a path: a build, a save, a remove or a rename.
InitAccess ==
    /\ test = NewTest("idle")
    /\ goMod \in BOOLEAN
    /\ channel = "live"
    /\ writing = {}
    /\ sent = <<>>
    /\ lint = NewLint("idle", <<>>, <<>>)
    /\ args = NewArgs("idle", <<>>)
    /\ disk = InitDisk
    /\ \/ /\ \E r \in BuildRequests :
                build = [i \in Builds |->
                           IF i = 1 THEN r ELSE NewBuild("idle", "")]
          /\ file = NewFile("idle", NoPath, NoPath, {}, {}, {})
       \/ /\ build = [i \in Builds |-> NewBuild("idle", "")]
          /\ file \in FileRequests

NextAccess ==
    \/ \E i \in Builds : Prefix(i)
    \/ SaveCheck \/ SaveCreate \/ SaveWrite
    \/ RemoveCheck \/ RemoveFile
    \/ RenameCheck \/ RenameFile
    \/ ChannelBreak
    \/ ChannelRemove

SpecAccess == InitAccess /\ [][NextAccess]_vars

\* ------------------------------------------------------------------ claims

IsPrefix(a, b) == Len(a) <= Len(b) /\ a = SubSeq(b, 1, Len(a))

\* The messages delivered for invocation i, and those of one send point.
Delivered(i) == SelectSeq(sent, LAMBDA e : e.who[1] = i /\ e.ok)

DeliveredAs(i, role) ==
    SelectSeq(sent, LAMBDA e : e.who[1] = i /\ e.ok /\ e.role = role)

OutputsOf(msgs) == [k \in 1..Len(msgs) |-> msgs[k].msg.output]

\* C1: during a build no two tasks are inside a write to the session's
\* channel at the same time.
C1_WritesSerialized == Cardinality(writing) <= 1

\* C2: a module preparation that failed without reporting that the
\* descriptor already exists never proceeds to the spawn of the compile
\* process, and the handler aborts in the Preparing step only for such a
\* failure, with result code -1 and no compile process.
C2_PrepareAbortsOnlyOnOtherFailure ==
    \A i \in Builds :
        LET s == build[i] IN
        /\ s.pc = "spawn" => ~(s.modErr /\ ~s.modExists)
        /\ (s.pc = "aborted" /\ s.abortedAt = "prepare") =>
              /\ s.modErr /\ ~s.modExists
              /\ s.code = -1
              /\ s.proc.state = "none"

\* C3: an invocation that prepares the directory after another invocation
\* has prepared it never aborts in the Preparing step.
C3_LaterPreparationNeverAborts ==
    \A i \in Builds :
        build[i].prepNo >= 2 =>
            ~(build[i].pc = "aborted" /\ build[i].abortedAt = "prepare")

\* C4: once streaming has stopped with the channel gone or failing, the
\* compile process the handler waits for is never blocked: it can still
\* write or exit, so that it runs to completion and the wait returns.
C4_ProcessRunsToCompletion ==
    \A i \in Builds :
        LET s == build[i] IN
        (s.pc = "wait" /\ s.gpc = "done" /\ channel # "live"
            /\ s.proc.state = "running") =>
            (CanWriteOut(s.proc) \/ CanWriteErr(s.proc) \/ CanExit(s.proc))

\* C5: a build that found no channel registered at one of its send points
\* does not end in a fault.
C5_AbsentChannelNoFault ==
    \A i \in Builds : build[i].dropped => build[i].pc # "panicked"

\* C6: after a non-zero exit of the compile process the handler does not
\* fault, and the completion message it prepares carries the diagnostics
\* of the buffered standard-error lines.
C6_FailureExitNoFault ==
    \A i \in Builds :
        LET s == build[i] IN
        s.waitErr =>
            /\ s.pc # "panicked"
            /\ s.pc \in {"finalCheck", "finalWrite"} =>
                  /\ s.channelRet.hasLints
                  /\ s.channelRet.lints = LintProcess(CurDir, s.lines).lints

\* C7: the output-line messages delivered for the standard-output stream
\* carry, in order, a prefix of the lines the process wrote to standard
\* output, and those delivered for standard error a prefix of the lines it
\* wrote to standard error.
C7_PerStreamOrder ==
    \A i \in Builds :
        LET p == build[i].proc IN
        /\ IsPrefix(OutputsOf(DeliveredAs(i, "stdout")),
                    [k \in 1..p.nOut |-> Output("stdout", p.planOut[k])])
        /\ IsPrefix(OutputsOf(DeliveredAs(i, "stderr")),
                    [k \in 1..p.nErr |-> Output("stderr", p.planErr[k])])

\* C8: when the compile process exited with status 0 and the handler has
\* returned with the channel live, exactly one delivered message carries
\* the success banner, it carries the chained-command token, and no
\* delivered message carries a diagnostics list.
C8_OneSuccessBanner ==
    \A i \in Builds :
        LET s == build[i]
            succ == SelectSeq(Delivered(i),
                        LAMBDA e : e.msg.output.class = "build-succ")
        IN  (s.pc = "done" /\ s.proc.state = "reaped" /\ s.proc.exit = 0
                /\ channel = "live") =>
                /\ Len(succ) = 1
                /\ succ[1].msg.nextCmd = s.nextCmdArg
                /\ \A k \in 1..Len(Delivered(i)) :
                      ~Delivered(i)[k].msg.hasLints

\* The completion messages the test's background task has sent, delivered
\* or not.
TestCompletions == SelectSeq(sent, LAMBDA e : e.who = TBg)

\* The merged output has been read to its end and the process has exited.
TestDrained ==
    /\ test.proc.state = "reaped"
    /\ test.proc.nOut = Len(test.proc.planOut)
    /\ test.proc.nErr = Len(test.proc.planErr)
    /\ test.proc.outPipe = <<>> /\ test.proc.errPipe = <<>>

\* C9: the background task of a started test sends at most one completion
\* message, and exactly one when it finds a channel registered; it sends
\* only after the merged output was read to its end and the process has
\* exited; the text is the fail banner on a non-zero exit status and the
\* pass banner on a zero one, followed by everything the process wrote.
C9_TestCompletion ==
    /\ Len(TestCompletions) <= 1
    /\ test.gpc = "done" => (Len(TestCompletions) = 1 <=> test.liveAtSend)
    /\ test.gpc \in {"finalWrite", "finalWriteEnd"} => TestDrained
    /\ \A k \in 1..Len(TestCompletions) :
          /\ TestDrained
          /\ TestCompletions[k].msg.cmd = "go test"
          /\ TestCompletions[k].msg.output =
                Output(IF test.proc.exit # 0 THEN "test-error"
                       ELSE "test-succ",
                       Flatten(test.proc.planOut) \o Flatten(test.proc.planErr))

\* A failing test whose completion message, with output captured from both
\* streams, was delivered.
C9_Witness ==
    /\ Len(TestCompletions) = 1
    /\ TestCompletions[1].ok
    /\ test.proc.exit # 0
    /\ test.proc.nOut > 0 /\ test.proc.nErr > 0

\* The background task has read the merged stream to its end.
TestCaptured ==
    test.gpc \in {"wait", "classify", "finalCheck", "finalWrite",
                  "finalWriteEnd", "done"}

\* C10 (as claimed): the captured text holds every byte the test process
\* wrote, in the order in which it wrote them, across both streams.
C10_MergedInWriteOrder == TestCaptured => test.buf = test.order

\* C10 (amended): the captured text is everything the test process wrote
\* to standard output, in order, followed by everything it wrote to
\* standard error, in order.
C10_StdoutThenStderr ==
    TestCaptured =>
        /\ test.proc.nOut = Len(test.proc.planOut)
        /\ test.proc.nErr = Len(test.proc.planErr)
        /\ test.buf = Flatten(test.proc.planOut) \o Flatten(test.proc.planErr)

\* The process wrote to standard error before it wrote to standard output,
\* and the merged stream was captured.
C10_Witness ==
    /\ TestCaptured
    /\ test.proc.nOut > 0 /\ test.proc.nErr > 0
    /\ test.order # test.buf

\* The start announcement of the test was sent and the send failed.
TestAnnouncementFailed ==
    \E k \in 1..Len(sent) :
        sent[k].who = TMain /\ sent[k].role = "start" /\ ~sent[k].ok

\* C11: a send that fails is only logged: when the start announcement of a
\* test fails to send, the handler still goes on to start the test process
\* (it does not return with the process never started).
C11_FailedAnnouncementStillStarts ==
    (TestAnnouncementFailed /\ test.pc = "returned") =>
        (test.proc.state # "none" \/ test.code = -1)

\* C12: a build whose source file could not be created or written has
\* ended there with result code -1: it has sent nothing on the channel and
\* is inside no send, it has run no module command and started no compile
\* process and no stdout goroutine.
C12_WriteFailureAborts ==
    \A i \in Builds :
        LET s == build[i] IN
        s.abortedAt = "write" =>
            /\ s.pc = "aborted"
            /\ s.code = -1
            /\ \A k \in 1..Len(sent) : sent[k].who[1] # i
            /\ Main(i) \notin writing /\ Bg(i) \notin writing
            /\ s.prepNo = 0 /\ s.modCmd = ""
            /\ s.proc.state = "none" /\ s.gpc = "none"

\* A build has failed in the Writing step on a live channel.
C12_Witness ==
    \E i \in Builds :
        build[i].abortedAt = "write" /\ build[i].code = -1
            /\ channel = "live"

\* C13: the build handler's result code is -1 only when the source file
\* could not be written, when the module preparation failed for another
\* reason than the descriptor already existing, or when the compile process
\* could not be spawned; once the compile process runs, whatever happens to
\* the streams, the sends, the diagnostics and the exit status, the result
\* code stays 0.
C13_FailureCodeOnlyForAbortClasses ==
    \A i \in Builds :
        LET s == build[i] IN
        /\ s.code = -1 =>
              \/ s.abortedAt = "write"
              \/ s.abortedAt = "prepare" /\ s.modErr /\ ~s.modExists
              \/ s.abortedAt = "spawn"
        /\ s.proc.state # "none" => s.code = 0

\* The parts of an error line "filePart:lineToken:msgToken": what precedes
\* the first colon, what lies between the first two colons, and what
\* follows the second colon. AfterFirst is everything after the first colon.
FilePart(line) == SubSeq(line, 1, IndexOf(line, ":") - 1)

AfterFirst(line) == From(line, IndexOf(line, ":"))

HasLineToken(line) == Contains(line, ":") /\ Contains(AfterFirst(line), ":")

LineToken(line) ==
    SubSeq(AfterFirst(line), 1, IndexOf(AfterFirst(line), ":") - 1)

MsgToken(line) == From(AfterFirst(line), IndexOf(AfterFirst(line), ":"))

IsContinuation(line) == line # <<>> /\ line[1] = "\t"

\* A line of the shape path:N:msg with N an integer, not a continuation.
IsNumbered(line) ==
    /\ ~IsContinuation(line)
    /\ HasLineToken(line)
    /\ Atoi(LineToken(line)).ok

\* The last iteration of the loop added one Lint and changed no other.
AddedOne ==
    /\ lint.pc # "panicked"
    /\ Len(lint.lints) = Len(lint.before) + 1
    /\ SubSeq(lint.lints, 1, Len(lint.before)) = lint.before

LastLint == lint.lints[Len(lint.lints)]

C15_MessageIsMsgToken ==
    (lint.iterated /\ IsNumbered(lint.line)) =>
        /\ AddedOne
        /\ LastLint.Msg = MsgToken(lint.line)

\* The Diagnostic expected of the compile of /proj/main.go.
ScenarioLint ==
    [File |-> <<"/", "p", "r", "o", "j", "/", "m", "a", "i", "n", ".", "g",
                "o">>,
     LineNo |-> 9,
     Severity |-> "error",
     Msg |-> <<"u", "n", "d", "e", "f", "i", "n", "e", "d", ":", " ", "f",
               "o", "o">>]

\* C16: a failing build in /proj whose standard error is the one line
\* "main.go:10:2: undefined: foo" gets exactly one Diagnostic: file
\* /proj/main.go, line 9, severity error, message "undefined: foo".
C16_ScenarioB ==
    (lint.pc = "done" /\ lint.curDir = ScenarioDir
        /\ lint.lines = <<ScenarioText>>) =>
        lint.lints = <<ScenarioLint>>

\* A line of the shape path:X:msg where X is not an integer, not a
\* continuation.
IsUnnumbered(line) ==
    /\ ~IsContinuation(line)
    /\ HasLineToken(line)
    /\ ~Atoi(LineToken(line)).ok

\* C17 (as claimed): an iteration over a line path:X:msg whose X is not an
\* integer adds a Diagnostic with line 0 and, as its message, everything
\* after the first colon.
C17_UnparsedLineKept ==
    (lint.iterated /\ IsUnnumbered(lint.line)) =>
        /\ AddedOne
        /\ LastLint.LineNo = 0
        /\ LastLint.Msg = AfterFirst(lint.line)

\* C17 (amended): an iteration over a line path:X:msg whose X is not an
\* integer adds no Diagnostic and changes none: the line is passed over
\* without a fault and the loop goes on.
C17_UnparsedLineSkipped ==
    (lint.iterated /\ IsUnnumbered(lint.line)) =>
        /\ lint.pc # "panicked"
        /\ lint.lints = lint.before

\* The loop has just passed over a line with a file name and a line token
\* that is not a number.
C17_Witness ==
    /\ lint.iterated /\ IsUnnumbered(lint.line)
    /\ FilePart(lint.line) # <<>>
    /\ LineToken(lint.line) # <<>>

\* A line with exactly one colon (no line token), not a continuation.
HasOneColon(line) ==
    /\ ~IsContinuation(line)
    /\ Contains(line, ":")
    /\ ~HasLineToken(line)

\* C18: every Diagnostic has severity "error"; the Diagnostic of a line
\* with an integer line token N has line N - 1, and that of a line with a
\* single colon, which has no line token, has line 0.
C18_LineZeroWithoutToken ==
    /\ \A k \in 1..Len(lint.lints) : lint.lints[k].Severity = "error"
    /\ (lint.iterated /\ IsNumbered(lint.line)) =>
          /\ AddedOne
          /\ LastLint.LineNo = Atoi(LineToken(lint.line)).val - 1
    /\ (lint.iterated /\ HasOneColon(lint.line)) =>
          /\ AddedOne
          /\ LastLint.LineNo = 0

\* C19: an iteration over a line that starts with a tab, right after the
\* iteration that added a Diagnostic, appends the whole line to the message
\* of that Diagnostic and adds none, whether or not the line has a colon.
C19_ContinuationAppended ==
    (lint.iterated /\ IsContinuation(lint.line) /\ lint.prevAdded) =>
        /\ lint.pc # "panicked"
        /\ lint.lints =
              [lint.before EXCEPT ![Len(lint.before)].Msg = @ \o lint.line]

\* C20: an iteration over a line that starts with a tab while no Diagnostic
\* has been added yet passes over the line: there is no fault, no
\* Diagnostic is added, and the loop goes on to the following lines.
C20_LeadingContinuationDropped ==
    (lint.iterated /\ IsContinuation(lint.line) /\ lint.before = <<>>) =>
        /\ lint.pc # "panicked"
        /\ lint.lints = <<>>

\* C21: an iteration over a line that has no colon and does not start with
\* a tab adds no Diagnostic and changes none: the list after it equals the
\* list before it.
C21_NoColonLineDropped ==
    (lint.iterated /\ ~Contains(lint.line, ":")
        /\ ~IsContinuation(lint.line)) =>
        /\ lint.pc # "panicked"
        /\ lint.lints = lint.before

\* The loop has just passed over a line of text without a colon, after a
\* Diagnostic had been added.
C21_Witness ==
    /\ lint.iterated
    /\ ~Contains(lint.line, ":") /\ ~IsContinuation(lint.line)
    /\ Len(lint.line) > 1
    /\ lint.before # <<>>

\* The buffer begins with a package marker line.
HasMarker ==
    lint.lines # <<>> /\ lint.lines[1] # <<>> /\ lint.lines[1][1] = "#"

\* A line for which the loop adds a Diagnostic.
IsDiagnosticLine(line) == IsNumbered(line) \/ HasOneColon(line)

\* C22: a first line that starts with "#" is removed before the loop, with
\* or without colons: the loop iterates over the lines after it only and
\* ends with the Diagnostics of those lines, so a marker followed by one
\* diagnostic line gives exactly one Diagnostic, that of the second line;
\* a later line that starts with "#" is parsed like any other line.
C22_LeadingMarkerDiscarded ==
    /\ (HasMarker /\ lint.pc # "first") =>
          /\ Len(lint.rest) + Len(lint.lints) <= Len(lint.lines) - 1
          /\ lint.pc = "done" =>
                lint.lints = LintLoop(lint.curDir, Tail(lint.lines), <<>>).lints
          /\ (lint.pc = "done" /\ Len(lint.lines) = 2
                /\ IsDiagnosticLine(lint.lines[2])) =>
                /\ Len(lint.lints) = 1
                /\ lint.lints[1].File =
                      JoinPath(lint.curDir, FilePart(lint.lines[2]))
    /\ (lint.iterated /\ lint.line[1] = "#"
          /\ IsDiagnosticLine(lint.line)) => AddedOne

\* A marker line with a colon, followed by one diagnostic line, has been
\* parsed to the end.
C22_Witness ==
    /\ HasMarker /\ lint.pc = "done"
    /\ Contains(lint.lines[1], ":")
    /\ Len(lint.lines) = 2 /\ IsDiagnosticLine(lint.lines[2])
    /\ Len(lint.lints) = 1

\* The build handler has returned to its caller, normally or by a panic.
BuildReturned(i) == build[i].pc \in {"done", "aborted", "panicked"}

\* C23: the test handler has returned whenever its process is started,
\* whatever the process and the background task are doing, while a build
\* handler that started a compile process returns only after that process
\* has exited and been waited for.
C23_TestDetachesBuildWaits ==
    /\ test.proc.state # "none" => test.pc = "returned"
    /\ \A i \in Builds :
          (BuildReturned(i) /\ build[i].proc.state # "none") =>
              build[i].proc.state = "reaped"

\* The test handler has returned while the process is running, has written
\* output, and the background task has read none of it.
C23_Witness ==
    /\ test.pc = "returned"
    /\ test.proc.state = "running"
    /\ test.proc.nOut + test.proc.nErr > 0
    /\ test.gpc = "readAll" /\ test.buf = <<>>

\* How many elements of a sequence equal x.
CountOf(x, seq) == Cardinality({k \in 1..Len(seq) : seq[k] = x})

\* A sequence in which no element occurs twice.
NoDuplicates(seq) ==
    \A j, k \in 1..Len(seq) : seq[j] = seq[k] => j = k

\* The elements of a sequence.
Range(seq) == {seq[k] : k \in 1..Len(seq)}

\* seq[k] does not occur before position k.
FirstAt(seq, k) == \A h \in 1..(k - 1) : seq[h] # seq[k]

CompletionIsLast(i) ==
    \A k \in 1..Len(sent) :
        (sent[k].who = Main(i) /\ sent[k].role = "completion" /\ sent[k].ok)
            => \A j \in (k + 1)..Len(sent) :
                  ~(sent[j].who[1] = i /\ sent[j].ok)

\* Only the completion message of invocation i carries the diagnostics
\* list or the chained-command token.
OnlyCompletionCarriesResult(i) ==
    \A k \in 1..Len(sent) :
        (sent[k].who[1] = i /\ sent[k].ok /\ sent[k].role # "completion")
            => ~sent[k].msg.hasLints /\ sent[k].msg.nextCmd = ""

\* C25: the completion message of a build is the last message delivered
\* for it: the stdout goroutine delivers nothing after it, and no other
\* message of the build carries the diagnostics list or the
\* chained-command token.
C25_CompletionIsLast ==
    \A i \in Builds : CompletionIsLast(i) /\ OnlyCompletionCarriesResult(i)

\* C26: a started test is never stuck: while the background task is
\* reading the merged stream and the process is running, the process can
\* write or exit, or the read of the current source can return, so that
\* the task goes on to the end of the stream, the wait and the completion.
C26_TestNeverStuck ==
    (test.gpc = "readAll" /\ test.proc.state = "running") =>
        \/ CanWriteOut(test.proc)
        \/ CanWriteErr(test.proc)
        \/ CanExit(test.proc)
        \/ SrcReadable(test.proc, ReaderOrder[test.src])

\* A start announcement, or a completion message, of invocation i (0: the
\* test) was delivered.
StartDelivered(i) ==
    \E k \in 1..Len(sent) :
        sent[k].who[1] = i /\ sent[k].role = "start" /\ sent[k].ok

CompletionDelivered(i) ==
    \E k \in 1..Len(sent) :
        /\ sent[k].who[1] = i /\ sent[k].role = "completion" /\ sent[k].ok
        /\ sent[k].msg.output.class \in
              {"build-succ", "build-error", "test-succ", "test-error"}

\* C27: with the channel live throughout, a build handler that has ended
\* after its start announcement was delivered has delivered a completion
\* message with a banner, and a test handler whose announcement was
\* delivered and which started no background task has not ended.
C27_StartIsAnswered ==
    /\ \A i \in Builds :
          (StartDelivered(i) /\ channel = "live" /\ BuildReturned(i)) =>
              CompletionDelivered(i)
    /\ (StartDelivered(0) /\ channel = "live" /\ test.pc = "returned") =>
          test.gpc # "none"

\* C28: a request that names a path its handler refuses changes nothing.
\* A build of a file inside the Go API tree or not accessible to the user
\* is answered Forbidden with no file created or truncated, no message
\* sent, no module command run and no process started; a save or a remove
\* of a path inside the Go API tree, inside the Go PATH tree or not
\* accessible, and a rename whose old or new path is one, is answered
\* Forbidden with every file as it was.
C28_RefusedChangesNothing ==
    /\ \A i \in Builds :
          LET s == build[i] IN
          (s.pc # "idle" /\ (s.isAPI \/ ~s.canAccess)) =>
              /\ s.pc \in {"access", "forbidden"}
              /\ s.pc = "forbidden" => s.status = 403
              /\ disk = InitDisk
              /\ \A k \in 1..Len(sent) : sent[k].who[1] # i
              /\ Main(i) \notin writing
              /\ s.prepNo = 0 /\ s.proc.state = "none" /\ s.gpc = "none"
    /\ (file.op # "idle"
          /\ (Refused(file.path)
                \/ (file.op = "rename" /\ Refused(file.newPath)))) =>
          /\ file.pc \in {"check", "forbidden"}
          /\ file.pc = "forbidden" => file.status = 403
          /\ disk = InitDisk

\* A rename from a path the user may modify to one inside the Go API tree
\* has been answered Forbidden.
C28_Witness ==
    /\ file.op = "rename" /\ file.pc = "forbidden"
    /\ ~Refused(file.path)
    /\ file.newPath \in file.api
    /\ file.path # file.newPath

====
